---- MODULE Spec2Model ----
(***************************************************************************)
(* vidsz: Reader and Writer of the OpenCV backend.                         *)
(*   src/vidsz/opencv/reader/base_reader.py   (class Reader)               *)
(*   src/vidsz/opencv/writer/base_writer.py   (class Writer)               *)
(*                                                                         *)
(* The video stream handle (cv2.VideoCapture) is a finite list of fetch    *)
(* outcomes with a cursor; the sink handle (cv2.VideoWriter) is the list   *)
(* of the frames it was given.  One action per public operation.           *)
(***************************************************************************)
EXTENDS Integers, Sequences, FiniteSets, TLC

\* ------------------------------------------------------------------ bounds
\* longest source: number of fetch outcomes before the source is exhausted
MaxFrames == 5
\* longest source of a Reader that is used together with a Writer
MaxPiped == 2
\* largest batch_size
MaxBatch == 3
\* write() is called on a Writer that has counted fewer frames than this
MaxWrites == 1
\* release(), with-exit and finalization calls made on one object
MaxReleases == 2
\* frame shape reported by the source
SrcWidth == 2
SrcHeight == 1
SrcFps == 3

\* ------------------------------------------------------- values of the code
\* Python's None where a frame is expected
NoFrame == -1
\* a frame of np.zeros
ZeroFrame == 0
\* batch_size=None: frames are returned one by one
NoBatch == 0
\* the message of Writer.write on a non-open Writer
NotOpenMsg == "[Vidsz-Error] Attempted writing with a non-open Writer."
\* no exception raised
NoError == ""

\* Python's None where a number (width, height, fps) is expected
NoneNum == -1
\* A str is the sequence of its characters; Python's None where a str is
\* expected is this one-element sequence, which is no sequence of characters.
NoneStr == <<"None">>
Dot == "."
Sep == "/"
\* the messages of the exceptions of Writer.__init__
NeedNameMsg == "AssertionError: Must provide either Reader or name arg."
NoSinkMsg == "AssertionError: Failed to Create Writer for the given settings."
UnsupportedMsg == "NotImplementedError"

\* the values read() returns: None, one frame, or a batch of frame slots
None == [kind |-> "None", val |-> <<>>]
Frame(f) == [kind |-> "frame", val |-> <<f>>]
Batch(b) == [kind |-> "batch", val |-> b]

VARIABLES
    stream,   \* cv2.VideoCapture: src (fetch outcomes), pos, opened, last, failed,
              \* fetched (the fetches made by the last read() or read_frame()
              \* call), held (the Reader's _video_stream is not None),
              \* releases (the calls of the handle's release())
    reader,   \* the Reader's fields
    ret,      \* what the last read() or read_frame() returned
    got,      \* frames obtained by that call
    out,      \* the values these calls returned before the first None
    ended,    \* one of them has returned None
    direct,   \* read_frame() was called on a batched Reader, by-passing read()
    sinkv,    \* cv2.VideoWriter: opened, frames (what it was given), held (the
              \* Writer's _video_writer is not None), releases
    writer,   \* the Writer's fields
    werr,     \* the exception message of the last write(), or NoError
    ctor      \* Writer(...): its arguments, whether it ran, and how it ended

vars ==
    <<stream, reader, ret, got, out, ended, direct, sinkv, writer, werr, ctor>>
readerVars == <<stream, reader, ret, got, out, ended, direct>>
writerVars == <<sinkv, writer, werr, ctor>>

\* ------------------------------------------------------------ the source
\* A source of n fetch outcomes: outcome i is frame i, or a failed fetch.
SourcesUpTo(m) ==
    UNION { { s \in [1..n -> {NoFrame} \cup (1..n)] :
                \A i \in 1..n : s[i] \in {NoFrame, i} } : n \in 0..m }

\* the sources a Reader alone is read on
Sources == SourcesUpTo(MaxFrames)

\* the sources of a Reader that is used together with a Writer
PipedSources == SourcesUpTo(MaxPiped)

\* self._video_stream.read(): (flag, frame); a released or exhausted handle
\* gives (False, None)
VideoCapture_read(v) ==
    IF v.opened /\ v.pos < Len(v.src)
    THEN LET f == v.src[v.pos + 1] IN
         [flag |-> f # NoFrame, frame |-> f,
          v |-> [v EXCEPT !.pos = @ + 1,
                          !.last = IF f # NoFrame THEN "ok" ELSE "fail",
                          !.failed = @ \/ f = NoFrame,
                          !.fetched = @ + 1]]
    ELSE [flag |-> FALSE, frame |-> NoFrame,
          v |-> [v EXCEPT !.last = "fail", !.failed = TRUE, !.fetched = @ + 1]]

\* ------------------------------------------------------------ the Reader
\* the one element of a set of one element: { e(x) : x \in {d} } is e with x
\* bound to the value of d
Only(S) == CHOOSE x \in S : TRUE

\* is_open that looks at the Reader's flag only, not at the stream handle
is_open_flag_only(r, v) == r._is_open

is_open(r, v) == v.opened /\ r._is_open

\* read_frame that counts every fetch, obtained or not
read_frame_count_all(r, v) ==
    LET g == VideoCapture_read(v) IN
    [r |-> [r EXCEPT !._frame_count = @ + 1, !._is_open = g.flag],
     v |-> g.v,
     frame |-> g.frame]

\* read_frame that leaves the open flag alone
read_frame_keep_open(r, v) ==
    LET g == VideoCapture_read(v) IN
    [r |-> [r EXCEPT !._frame_count = @ + (IF g.frame = NoFrame THEN 0 ELSE 1)],
     v |-> g.v,
     frame |-> g.frame]

\* read_frame that puts frame_count back to 0 on a failed fetch
read_frame_reset_on_fail(r, v) ==
    LET g == VideoCapture_read(v) IN
    [r |-> [r EXCEPT !._frame_count = IF g.frame = NoFrame THEN 0 ELSE @ + 1,
                     !._is_open = g.flag],
     v |-> g.v,
     frame |-> g.frame]

\* read_frame whose open flag never comes back once a fetch failed
read_frame_latched(r, v) ==
    LET g == VideoCapture_read(v) IN
    [r |-> [r EXCEPT !._frame_count = @ + (IF g.frame = NoFrame THEN 0 ELSE 1),
                     !._is_open = @ /\ g.flag],
     v |-> g.v,
     frame |-> g.frame]

read_frame(r, v) ==
    LET g == VideoCapture_read(v) IN
    [r |-> [r EXCEPT !._frame_count = @ + (IF g.frame = NoFrame THEN 0 ELSE 1),
                     !._is_open = g.flag],
     v |-> g.v,
     frame |-> g.frame]

\* the loop without "i -= 1" on a failed fetch
RECURSIVE fill_batch_no_decr(_, _, _, _)
fill_batch_no_decr(r, v, batch, i) ==
    IF i = r._batch_size
    THEN [r |-> r, v |-> v, batch |-> batch, i |-> i - 1]
    ELSE Only({ IF g.frame = NoFrame
                THEN [r |-> g.r, v |-> g.v, batch |-> batch, i |-> i]
                ELSE fill_batch_no_decr(g.r, g.v, [batch EXCEPT ![i + 1] = g.frame], i + 1) :
                g \in {read_frame(r, v)} })

\* the loop that fills the batch from its last slot down
RECURSIVE fill_batch_from_end(_, _, _, _)
fill_batch_from_end(r, v, batch, i) ==
    IF i = r._batch_size
    THEN [r |-> r, v |-> v, batch |-> batch, i |-> i - 1]
    ELSE Only({ IF g.frame = NoFrame
                THEN [r |-> g.r, v |-> g.v, batch |-> batch, i |-> i - 1]
                ELSE fill_batch_from_end(g.r, g.v, [batch EXCEPT ![r._batch_size - i] = g.frame], i + 1) :
                g \in {read_frame(r, v)} })

\* the loop that goes on to the next iteration after a failed fetch
RECURSIVE fill_batch_keep_going(_, _, _, _)
fill_batch_keep_going(r, v, batch, i) ==
    IF i = r._batch_size
    THEN [r |-> r, v |-> v, batch |-> batch, i |-> i - 1]
    ELSE Only({ IF g.frame = NoFrame
                THEN fill_batch_keep_going(g.r, g.v, batch, i + 1)
                ELSE fill_batch_keep_going(g.r, g.v, [batch EXCEPT ![i + 1] = g.frame], i + 1) :
                g \in {read_frame(r, v)} })

\* the loop that puts every frame in slot 0
RECURSIVE fill_batch_overwrite(_, _, _, _)
fill_batch_overwrite(r, v, batch, i) ==
    IF i = r._batch_size
    THEN [r |-> r, v |-> v, batch |-> batch, i |-> i - 1]
    ELSE Only({ IF g.frame = NoFrame
                THEN [r |-> g.r, v |-> g.v, batch |-> batch, i |-> i - 1]
                ELSE fill_batch_overwrite(g.r, g.v, [batch EXCEPT ![1] = g.frame], i + 1) :
                g \in {read_frame(r, v)} })

\* the loop of read_batch: for i in range(batch_size), from iteration i on
RECURSIVE fill_batch(_, _, _, _)
fill_batch(r, v, batch, i) ==
    IF i = r._batch_size
    THEN [r |-> r, v |-> v, batch |-> batch, i |-> i - 1]
    ELSE Only({ IF g.frame = NoFrame
                THEN [r |-> g.r, v |-> g.v, batch |-> batch, i |-> i - 1]
                ELSE fill_batch(g.r, g.v, [batch EXCEPT ![i + 1] = g.frame], i + 1) :
                g \in {read_frame(r, v)} })

\* read_batch that, not open, makes a fetch before it returns None
read_batch_refetch(r, v) ==
    IF ~is_open(r, v)
    THEN LET g == read_frame(r, v) IN [r |-> g.r, v |-> g.v, ret |-> None]
    ELSE LET zeros == [k \in 1..r._batch_size |-> ZeroFrame]
             l == fill_batch(r, v, zeros, 0)
         IN  [r |-> l.r, v |-> l.v,
              ret |-> Batch(IF r._dynamic_batch
                            THEN SubSeq(l.batch, 1, l.i + 1)
                            ELSE l.batch)]

\* read_batch that returns the whole batch in dynamic mode too
read_batch_always_full(r, v) ==
    IF ~is_open(r, v)
    THEN [r |-> r, v |-> v, ret |-> None]
    ELSE LET zeros == [k \in 1..r._batch_size |-> ZeroFrame]
             l == fill_batch(r, v, zeros, 0)
         IN  [r |-> l.r, v |-> l.v, ret |-> Batch(l.batch)]

\* read_batch that, not open, clears the open flag before it returns None
read_batch_clear_flag(r, v) ==
    IF ~is_open(r, v)
    THEN [r |-> [r EXCEPT !._is_open = FALSE], v |-> v, ret |-> None]
    ELSE LET zeros == [k \in 1..r._batch_size |-> ZeroFrame]
             l == fill_batch(r, v, zeros, 0)
         IN  [r |-> l.r, v |-> l.v,
              ret |-> Batch(IF r._dynamic_batch
                            THEN SubSeq(l.batch, 1, l.i + 1)
                            ELSE l.batch)]

\* read_batch that returns None when the loop obtained no frame
read_batch_none_if_empty(r, v) ==
    IF ~is_open(r, v)
    THEN [r |-> r, v |-> v, ret |-> None]
    ELSE LET zeros == [k \in 1..r._batch_size |-> ZeroFrame]
             l == fill_batch(r, v, zeros, 0)
         IN  [r |-> l.r, v |-> l.v,
              ret |-> IF l.i = -1 THEN None
                      ELSE Batch(IF r._dynamic_batch
                                 THEN SubSeq(l.batch, 1, l.i + 1)
                                 ELSE l.batch)]

\* Reader.read_batch
read_batch(r, v) ==
    IF ~is_open(r, v)
    THEN [r |-> r, v |-> v, ret |-> None]
    ELSE LET zeros == [k \in 1..r._batch_size |-> ZeroFrame]
             l == fill_batch(r, v, zeros, 0)
         IN  [r |-> l.r, v |-> l.v,
              ret |-> Batch(IF r._dynamic_batch
                            THEN SubSeq(l.batch, 1, l.i + 1)
                            ELSE l.batch)]

\* the stream when read() or read_frame() is called: this call has made no
\* fetch yet
Entered(v) == [v EXCEPT !.fetched = 0]

\* read whose single-frame branch leaves the open flag alone
read_single_keep_open(r, v) ==
    IF r._batch_size = NoBatch
    THEN LET g == read_frame_keep_open(r, Entered(v)) IN
         [r |-> g.r, v |-> g.v,
          ret |-> IF g.frame = NoFrame THEN None ELSE Frame(g.frame)]
    ELSE read_batch(r, Entered(v))

read(r, v) ==
    IF r._batch_size = NoBatch
    THEN LET g == read_frame(r, Entered(v)) IN
         [r |-> g.r, v |-> g.v,
          ret |-> IF g.frame = NoFrame THEN None ELSE Frame(g.frame)]
    ELSE read_batch(r, Entered(v))

\* release that also puts the properties back to their defaults
release_reset(r, v) ==
    [r |-> [r EXCEPT !._frame_count = 0],
     v |-> IF v.held THEN [v EXCEPT !.opened = FALSE, !.releases = @ + 1] ELSE v]

\* release that calls the handle's release() only while the handle is open
release_if_open(r, v) ==
    [r |-> r,
     v |-> IF v.held /\ v.opened
           THEN [v EXCEPT !.opened = FALSE, !.releases = @ + 1] ELSE v]

\* Reader.release: the handle's release() is called if there is a handle
release(r, v) ==
    [r |-> r,
     v |-> IF v.held THEN [v EXCEPT !.opened = FALSE, !.releases = @ + 1] ELSE v]

\* Reader.__exit__
Reader__exit__(r, v) == release(r, v)

\* Reader.__del__: release(), then the handle is dropped
Reader__del__(r, v) ==
    LET g == release(r, v) IN [r |-> g.r, v |-> [g.v EXCEPT !.held = FALSE]]

\* __next__ that reads once to test for the end and once more to return
next_read_twice(r, v) ==
    LET g == read(r, v) IN
    IF g.ret.kind = "None"
    THEN [r |-> g.r, v |-> g.v, ret |-> g.ret, stop |-> TRUE]
    ELSE LET g2 == read(g.r, g.v) IN
         [r |-> g2.r, v |-> g2.v, ret |-> g2.ret, stop |-> FALSE]

\* Reader.__next__: read(), StopIteration on None
__next__(r, v) ==
    LET g == read(r, v) IN
    [r |-> g.r, v |-> g.v, ret |-> g.ret, stop |-> g.ret.kind = "None"]

\* what one call of __next__ showed: the value of read() and the frames it
\* obtained
Seen(r, n) == [ret |-> n.ret, got |-> n.r._frame_count - r._frame_count]

\* for frame in reader: pass; reads lists what each __next__ showed
RECURSIVE for_loop(_, _)
for_loop(r, v) ==
    Only({ IF n.stop
           THEN [r |-> n.r, v |-> n.v, reads |-> <<Seen(r, n)>>]
           ELSE Only({ [rest EXCEPT !.reads = <<Seen(r, n)>> \o @] :
                       rest \in {for_loop(n.r, n.v)} }) :
           n \in {__next__(r, v)} })

\* ------------------------------------------------------------ the Writer
\* frames handed to write(): one of the configured shape, one wider
WFrames ==
    { [h |-> SrcHeight, w |-> ww, val |-> <<1>>] : ww \in {SrcWidth, SrcWidth + 1} }

\* self._video_writer.write(frame): a released sink takes nothing
VideoWriter_write(k, frame) ==
    IF k.opened THEN [k EXCEPT !.frames = Append(@, frame)] ELSE k

\* write without the is_open check
write_unchecked(w, k, frame) ==
    [w |-> [w EXCEPT !._frame_count = @ + 1],
     k |-> VideoWriter_write(k, frame),
     err |-> NoError]

\* write that refuses a frame whose shape is not the configured one
write_shape_checked(w, k, frame) ==
    IF ~k.opened
    THEN [w |-> w, k |-> k, err |-> NotOpenMsg]
    ELSE IF frame.w # w._width \/ frame.h # w._height
    THEN [w |-> w, k |-> k, err |-> "shape"]
    ELSE [w |-> [w EXCEPT !._frame_count = @ + 1],
          k |-> VideoWriter_write(k, frame),
          err |-> NoError]

\* write that counts the slots of what it is given
write_count_slots(w, k, frame) ==
    IF ~k.opened
    THEN [w |-> w, k |-> k, err |-> NotOpenMsg]
    ELSE [w |-> [w EXCEPT !._frame_count = @ + Len(frame.val)],
          k |-> VideoWriter_write(k, frame),
          err |-> NoError]

\* Writer.write
write(w, k, frame) ==
    IF ~k.opened
    THEN [w |-> w, k |-> k, err |-> NotOpenMsg]
    ELSE [w |-> [w EXCEPT !._frame_count = @ + 1],
          k |-> VideoWriter_write(k, frame),
          err |-> NoError]

\* the array read() returned, as write() receives it
AsArray(r, x) == [h |-> r._height, w |-> r._width, val |-> x.val]

\* write_all that writes every element twice
RECURSIVE write_all_twice(_, _, _, _)
write_all_twice(w, k, r, v) ==
    Only({ IF n.stop
           THEN [w |-> w, k |-> k, r |-> n.r, v |-> n.v, err |-> NoError,
                 reads |-> <<Seen(r, n)>>]
           ELSE Only({ IF x.err # NoError
                       THEN [w |-> x.w, k |-> x.k, r |-> n.r, v |-> n.v,
                             err |-> x.err, reads |-> <<Seen(r, n)>>]
                       ELSE Only({ [rest EXCEPT !.reads = <<Seen(r, n)>> \o @] :
                                   rest \in {write_all_twice(x.w, x.k, n.r, n.v)} }) :
                       x \in { write(x1.w, x1.k, AsArray(n.r, n.ret)) :
                               x1 \in {write(w, k, AsArray(n.r, n.ret))} } }) :
           n \in {__next__(r, v)} })

\* write_all that goes on to the next element when write raised
RECURSIVE write_all_skip_errors(_, _, _, _)
write_all_skip_errors(w, k, r, v) ==
    Only({ IF n.stop
           THEN [w |-> w, k |-> k, r |-> n.r, v |-> n.v, err |-> NoError,
                 reads |-> <<Seen(r, n)>>]
           ELSE Only({ Only({ [rest EXCEPT !.reads = <<Seen(r, n)>> \o @] :
                              rest \in {write_all_skip_errors(x.w, x.k, n.r, n.v)} }) :
                       x \in {write(w, k, AsArray(n.r, n.ret))} }) :
           n \in {__next__(r, v)} })

\* Writer.write_all(frames) with a Reader as frames: for frame in frames:
\* self.write(frame); an exception of write ends the loop.  n is what
\* __next__ gave, x what write gave, rest the remaining iterations.
RECURSIVE write_all(_, _, _, _)
write_all(w, k, r, v) ==
    Only({ IF n.stop
           THEN [w |-> w, k |-> k, r |-> n.r, v |-> n.v, err |-> NoError,
                 reads |-> <<Seen(r, n)>>]
           ELSE Only({ IF x.err # NoError
                       THEN [w |-> x.w, k |-> x.k, r |-> n.r, v |-> n.v,
                             err |-> x.err, reads |-> <<Seen(r, n)>>]
                       ELSE Only({ [rest EXCEPT !.reads = <<Seen(r, n)>> \o @] :
                                   rest \in {write_all(x.w, x.k, n.r, n.v)} }) :
                       x \in {write(w, k, AsArray(n.r, n.ret))} }) :
           n \in {__next__(r, v)} })

\* release that also puts the Write Counter back to 0
Writer_release_reset(w, k) ==
    [w |-> [w EXCEPT !._frame_count = 0],
     k |-> IF k.held THEN [k EXCEPT !.opened = FALSE, !.releases = @ + 1] ELSE k]

\* Writer.release: the handle's release() is called if there is a handle
Writer_release(w, k) ==
    [w |-> w,
     k |-> IF k.held THEN [k EXCEPT !.opened = FALSE, !.releases = @ + 1] ELSE k]

\* Writer.__exit__
Writer__exit__(w, k) == Writer_release(w, k)

\* Writer.__del__: release(), then the handle is dropped
Writer__del__(w, k) ==
    LET g == Writer_release(w, k) IN [w |-> g.w, k |-> [g.k EXCEPT !.held = FALSE]]

\* ------------------------------------------------- constructing a Writer
Str_out == <<"_", "o", "u", "t">>
Ext_avi == <<".", "a", "v", "i">>
Ext_mkv == <<".", "m", "k", "v">>
Ext_mp4 == <<".", "m", "p", "4">>

Chars(s) == { s[i] : i \in 1..Len(s) }

\* str.rfind(ch), counted from 1: the place of the last ch of s, 0 if none
RFind(s, ch) ==
    LET I == { i \in 1..Len(s) : s[i] = ch } IN
    IF I = {} THEN 0 ELSE CHOOSE i \in I : \A j \in I : j <= i

\* os.path.splitext(p): the extension starts at the last dot of the last
\* path component, unless only dots precede it in that component
splitext(p) ==
    LET sepIndex == RFind(p, Sep)
        dotIndex == RFind(p, Dot)
    IN  IF /\ dotIndex > sepIndex
           /\ \E i \in (sepIndex + 1)..(dotIndex - 1) : p[i] # Dot
        THEN <<SubSeq(p, 1, dotIndex - 1), SubSeq(p, dotIndex, Len(p))>>
        ELSE <<p, <<>>>>

\* Writer._EXT_TO_FOURCC
_EXT_TO_FOURCC == (Ext_avi :> "DIVX") @@ (Ext_mkv :> "X264") @@ (Ext_mp4 :> "mp4v")

\* Writer._initiate_props
Writer_initiate_props ==
    [_name |-> NoneStr, _width |-> NoneNum, _height |-> NoneNum,
     _fps |-> NoneNum, _backend |-> "opencv", _ext |-> NoneStr,
     _info |-> [name |-> NoneStr, width |-> NoneNum, height |-> NoneNum,
                fps |-> NoneNum, backend |-> "None", ext |-> NoneStr],
     _frame_count |-> 0]

\* the default name with "_out" put after the extension
default_name_out_last(r) == r._name \o Str_out

\* _update_props, "set default if given": the name derived from the Reader's
default_name(r) ==
    LET se == splitext(r._name) IN se[1] \o Str_out \o se[2]

\* the overrides with fps assigned to the width
override_fps_to_width(w, a) ==
    [w EXCEPT !._name = IF a.name # NoneStr THEN a.name ELSE @,
              !._width = IF a.fps # NoneNum THEN a.fps
                         ELSE IF a.width # NoneNum THEN a.width ELSE @,
              !._height = IF a.height # NoneNum THEN a.height ELSE @]

\* _update_props, "override props if given"
override(w, a) ==
    [w EXCEPT !._name = IF a.name # NoneStr THEN a.name ELSE @,
              !._width = IF a.width # NoneNum THEN a.width ELSE @,
              !._height = IF a.height # NoneNum THEN a.height ELSE @,
              !._fps = IF a.fps # NoneNum THEN a.fps ELSE @]

\* _update_props, "set ext for CV2 writer creations" and "add . for consistency"
resolve_ext(w, a) ==
    LET e == IF a.ext = NoneStr THEN splitext(w._name)[2] ELSE a.ext IN
    [w EXCEPT !._ext = IF Dot \notin Chars(e) THEN <<Dot>> \o e ELSE e]

\* _update_props without "check valid name"
_update_props_no_check(w, r, a) ==
    LET w1 == IF a.reader
              THEN [w EXCEPT !._name = default_name(r), !._width = r._width,
                             !._height = r._height, !._fps = r._fps]
              ELSE w
    IN  [w |-> resolve_ext(override(w1, a), a), err |-> NoError]

\* Writer._update_props(reader, name, width, height, fps, ext); a.reader says
\* whether a Reader was given, r is that Reader
_update_props(w, r, a) ==
    LET w1 == IF a.reader
              THEN [w EXCEPT !._name = default_name(r), !._width = r._width,
                             !._height = r._height, !._fps = r._fps]
              ELSE w
        w2 == override(w1, a)
    IN  IF w2._name = NoneStr
        THEN [w |-> w2, err |-> NeedNameMsg]
        ELSE [w |-> resolve_ext(w2, a), err |-> NoError]

\* Writer._update_info
Writer_update_info(w) ==
    [w EXCEPT !._info = [name |-> w._name, width |-> w._width,
                         height |-> w._height, fps |-> w._fps,
                         backend |-> w._backend, ext |-> w._ext]]

\* _fourcc that falls back to mp4v for an extension the table does not list
_fourcc_default(w) ==
    IF w._ext \notin DOMAIN _EXT_TO_FOURCC
    THEN [err |-> NoError, code |-> "mp4v"]
    ELSE [err |-> NoError, code |-> _EXT_TO_FOURCC[w._ext]]

\* Writer._fourcc
_fourcc(w) ==
    IF w._ext \notin DOMAIN _EXT_TO_FOURCC
    THEN [err |-> UnsupportedMsg, code |-> "None"]
    ELSE [err |-> NoError, code |-> _EXT_TO_FOURCC[w._ext]]

\* no cv2.VideoWriter was created
NoSink == [created |-> FALSE, fourcc |-> "None", opened |-> FALSE]

\* Writer.__init__(reader, name, width, height, fps, ext); sinkOk says whether
\* the cv2.VideoWriter it creates reports itself open
Writer__init__(r, a, sinkOk) ==
    LET u == _update_props(Writer_initiate_props, r, a) IN
    IF u.err # NoError
    THEN [w |-> u.w, sink |-> NoSink, err |-> u.err]
    ELSE LET c == _fourcc(u.w) IN
         IF c.err # NoError
         THEN [w |-> u.w, sink |-> NoSink, err |-> c.err]
         ELSE LET k == [created |-> TRUE, fourcc |-> c.code, opened |-> sinkOk] IN
              IF ~k.opened
              THEN [w |-> u.w, sink |-> k, err |-> NoSinkMsg]
              ELSE [w |-> Writer_update_info(u.w), sink |-> k, err |-> NoError]

\* Reader.__init__ on a source that opens: _initiate_props, the arguments,
\* then _update_info
Reader__init__(name, b, d) ==
    [_name |-> name, _is_open |-> TRUE, _frame_count |-> 0,
     _batch_size |-> b, _dynamic_batch |-> d,
     _width |-> SrcWidth, _height |-> SrcHeight, _fps |-> SrcFps,
     _backend |-> "opencv",
     _info |-> [name |-> name, width |-> SrcWidth, height |-> SrcHeight,
                fps |-> SrcFps, backend |-> "opencv"]]

\* the source names of the Readers
Name_a_mp4 == <<"a", ".", "m", "p", "4">>
Name_countdown ==
    <<"s", "t", "a", "t", "i", "c", "/", "c", "o", "u", "n", "t", "d", "o", "w", "n",
      ".", "m", "p", "4">>
ReaderNames ==
    { Name_a_mp4, Name_countdown,
      <<"0">>,
      <<"d", ".", "x", "/", "c">>,
      <<"c", ".", "b", ".", "a", "v", "i">>,
      <<".", "m", "k", "v">>,
      <<"v", ".", "j", "s", "t">> }

\* the arguments of Writer(...)
NoArgs ==
    [reader |-> TRUE, name |-> NoneStr, width |-> NoneNum, height |-> NoneNum,
     fps |-> NoneNum, ext |-> NoneStr]
CtorArgs ==
    [reader : BOOLEAN,
     name : {NoneStr, <<"t", "e", "s", "t">>, <<"o", ".", "a", "v", "i">>,
             <<"t", ".", "m", "p", "4">>},
     width : {NoneNum, SrcWidth + 3},
     height : {NoneNum, SrcHeight + 4},
     fps : {NoneNum, SrcFps + 5},
     ext : {NoneStr, <<"a", "v", "i">>, Ext_mkv, <<"j", "s", "t">>}]

\* ---------------------------------------------------------------- states
\* a Reader on one of the sources S, and Writer(reader) made from it
InitOn(S) ==
    /\ \E s \in S :
         stream = [src |-> s, pos |-> 0, opened |-> TRUE,
                   last |-> "none", failed |-> FALSE, fetched |-> 0,
                   held |-> TRUE, releases |-> 0]
    /\ \E b \in {NoBatch} \cup (1..MaxBatch), d \in BOOLEAN :
         reader = Reader__init__(Name_a_mp4, b, d)
    /\ ret = None
    /\ got = 0
    /\ out = <<>>
    /\ ended = FALSE
    /\ direct = FALSE
    /\ LET g == Writer__init__(reader, NoArgs, TRUE) IN
       /\ writer = g.w
       /\ sinkv = [opened |-> g.sink.opened, frames |-> <<>>,
                   held |-> g.sink.created, releases |-> 0]
       /\ werr = NoError
       /\ ctor = [args |-> NoArgs, sinkOk |-> TRUE, done |-> TRUE,
                  err |-> g.err, sink |-> g.sink]

Init == InitOn(PipedSources)

InitReader == InitOn(Sources)

\* reader.read()
Read ==
    \E g \in {read(reader, stream)} :
       /\ reader' = g.r
       /\ stream' = g.v
       /\ ret' = g.ret
       /\ got' = g.r._frame_count - reader._frame_count
       /\ out' = IF ~ended /\ g.ret.kind # "None" THEN Append(out, g.ret.val) ELSE out
       /\ ended' = (ended \/ g.ret.kind = "None")
       /\ UNCHANGED direct
       /\ UNCHANGED writerVars

\* reader.read_frame(), called on the Reader itself: on a Reader without
\* batch size this is what read() does, on a batched Reader it fetches one
\* frame whatever an earlier read() returned
ReadFrame ==
    \E g \in {read_frame(reader, Entered(stream))} :
    \E x \in {IF g.frame = NoFrame THEN None ELSE Frame(g.frame)} :
       /\ reader' = g.r
       /\ stream' = g.v
       /\ ret' = x
       /\ got' = g.r._frame_count - reader._frame_count
       /\ out' = IF ~ended /\ x.kind # "None" THEN Append(out, x.val) ELSE out
       /\ ended' = (ended \/ x.kind = "None")
       /\ direct' = (direct \/ reader._batch_size # NoBatch)
       /\ UNCHANGED writerVars

\* reader.release()
Release ==
    /\ stream.releases < MaxReleases
    /\ LET g == release(reader, stream) IN
       /\ reader' = g.r
       /\ stream' = g.v
    /\ UNCHANGED <<ret, got, out, ended, direct>>
    /\ UNCHANGED writerVars

\* writer.write(frame)
Write(frame) ==
    /\ sinkv.opened => writer._frame_count < MaxWrites
    /\ LET g == write(writer, sinkv, frame) IN
       /\ writer' = g.w
       /\ sinkv' = g.k
       /\ werr' = g.err
    /\ UNCHANGED ctor
    /\ UNCHANGED readerVars

\* writer.release()
WriterRelease ==
    /\ sinkv.releases < MaxReleases
    /\ LET g == Writer_release(writer, sinkv) IN
       /\ writer' = g.w
       /\ sinkv' = g.k
    /\ UNCHANGED <<werr, ctor>>
    /\ UNCHANGED readerVars

\* out and ended after the calls of read() listed in reads: the values before
\* the first None are added to out unless a None came earlier
Observed(o, e, reads) ==
    LET nones == { i \in 1..Len(reads) : reads[i].ret.kind = "None" }
        upto == IF nones = {} THEN Len(reads)
                ELSE (CHOOSE i \in nones : \A j \in nones : i <= j) - 1
    IN  [out |-> IF e THEN o ELSE o \o [i \in 1..upto |-> reads[i].ret.val],
         ended |-> e \/ nones # {}]

\* for frame in reader: pass
Iterate ==
    \E g \in {for_loop(reader, stream)} :
    \E o \in {Observed(out, ended, g.reads)} :
       /\ reader' = g.r
       /\ stream' = g.v
       /\ ret' = g.reads[Len(g.reads)].ret
       /\ got' = g.reads[Len(g.reads)].got
       /\ out' = o.out
       /\ ended' = o.ended
       /\ UNCHANGED direct
       /\ UNCHANGED writerVars

\* writer.write_all(reader)
WriteAll ==
    \E g \in {write_all(writer, sinkv, reader, stream)} :
    \E o \in {Observed(out, ended, g.reads)} :
       /\ writer' = g.w
       /\ sinkv' = g.k
       /\ werr' = g.err
       /\ reader' = g.r
       /\ stream' = g.v
       /\ ret' = g.reads[Len(g.reads)].ret
       /\ got' = g.reads[Len(g.reads)].got
       /\ out' = o.out
       /\ ended' = o.ended
       /\ UNCHANGED <<ctor, direct>>

WriteAny == \E frame \in WFrames : Write(frame)

Next ==
    \/ Read
    \/ ReadFrame
    \/ Release
    \/ WriteAny
    \/ WriterRelease
    \/ Iterate
    \/ WriteAll

Spec == Init /\ [][Next]_vars

\* the Reader alone: read(), read_frame(), release() and for loops
NextReader ==
    \/ Read
    \/ ReadFrame
    \/ Release
    \/ Iterate

SpecReader == InitReader /\ [][NextReader]_vars

\* Writer(reader, name, width, height, fps, ext)
Construct ==
    /\ ~ctor.done
    /\ LET g == Writer__init__(reader, ctor.args, ctor.sinkOk) IN
       /\ writer' = g.w
       /\ sinkv' = [sinkv EXCEPT !.opened = g.sink.opened,
                                 !.held = g.sink.created]
       /\ ctor' = [ctor EXCEPT !.done = TRUE, !.err = g.err, !.sink = g.sink]
    /\ UNCHANGED werr
    /\ UNCHANGED readerVars

\* before Writer(...): a Reader, and the arguments of the call
InitW ==
    /\ stream = [src |-> <<>>, pos |-> 0, opened |-> TRUE,
                 last |-> "none", failed |-> FALSE, fetched |-> 0,
                   held |-> TRUE, releases |-> 0]
    /\ \E n \in ReaderNames : reader = Reader__init__(n, NoBatch, FALSE)
    /\ ret = None
    /\ got = 0
    /\ out = <<>>
    /\ ended = FALSE
    /\ direct = FALSE
    /\ writer = Writer_initiate_props
    /\ sinkv = [opened |-> FALSE, frames |-> <<>>,
                held |-> FALSE, releases |-> 0]
    /\ werr = NoError
    /\ \E a \in CtorArgs, ok \in BOOLEAN :
         ctor = [args |-> a, sinkOk |-> ok, done |-> FALSE,
                 err |-> NoError, sink |-> NoSink]

NextW == Construct

SpecW == InitW /\ [][NextW]_vars

\* leaving "with Reader(...) as reader:"
ReaderExit ==
    /\ stream.releases < MaxReleases
    /\ LET g == Reader__exit__(reader, stream) IN
       /\ reader' = g.r
       /\ stream' = g.v
    /\ UNCHANGED <<ret, got, out, ended, direct>>
    /\ UNCHANGED writerVars

\* the Reader is finalized: once, and nothing is called on it afterwards
ReaderFinalize ==
    /\ stream.held
    /\ LET g == Reader__del__(reader, stream) IN
       /\ reader' = g.r
       /\ stream' = g.v
    /\ UNCHANGED <<ret, got, out, ended, direct>>
    /\ UNCHANGED writerVars

\* leaving "with Writer(...) as writer:"
WriterExit ==
    /\ sinkv.releases < MaxReleases
    /\ LET g == Writer__exit__(writer, sinkv) IN
       /\ writer' = g.w
       /\ sinkv' = g.k
    /\ UNCHANGED <<werr, ctor>>
    /\ UNCHANGED readerVars

\* the Writer is finalized
WriterFinalize ==
    /\ sinkv.held
    /\ LET g == Writer__del__(writer, sinkv) IN
       /\ writer' = g.w
       /\ sinkv' = g.k
    /\ UNCHANGED <<werr, ctor>>
    /\ UNCHANGED readerVars

\* the calls that release: explicit release(), with-exit, finalization; an
\* object that was finalized gets no further call
NextLife ==
    \/ stream.held /\ Release
    \/ stream.held /\ ReaderExit
    \/ ReaderFinalize
    \/ sinkv.held /\ WriterRelease
    \/ sinkv.held /\ WriterExit
    \/ WriterFinalize

SpecLife == Init /\ [][NextLife]_vars

\* one pass of "for frame in reader": __next__, until it raised StopIteration
ForStep == ~ended /\ Read

\* one pass of "while reader.is_open(): reader.read()"
WhileStep == is_open(reader, stream) /\ Read

\* a read(), a read_frame() or a for loop started after read() has returned
\* None
AfterEnd == ended /\ (Read \/ ReadFrame \/ Iterate)

NextLoop ==
    \/ ForStep
    \/ WhileStep
    \/ AfterEnd

\* a loop that can make its next pass makes it
SpecLoop ==
    InitReader /\ [][NextLoop]_vars /\ WF_vars(ForStep) /\ WF_vars(WhileStep)

\* ---------------------------------------------------------------- claims
batched == reader._batch_size # NoBatch
\* the source has no failed fetch before it is exhausted: a finite source of
\* Len(stream.src) frames
NoTransient == \A i \in 1..Len(stream.src) : stream.src[i] # NoFrame
NFrames == Len(stream.src)
\* the Reader was read until None and never released
ReadOut == ended /\ stream.opened /\ NoTransient
\* ... by read() and for loops alone: no read_frame() took a frame out of a
\* batched Reader's sequence of batches
Drained == ReadOut /\ ~direct
Ceil(n, b) == (n + b - 1) \div b

RECURSIVE SumLen(_)
SumLen(bs) == IF bs = <<>> THEN 0 ELSE Len(Head(bs)) + SumLen(Tail(bs))

\* C1 (as claimed): fixed mode, N >= 1 frames, read until the first None:
\* ceil(N / batch_size) batches are returned, and the last one holds real
\* frames in its first N mod batch_size slots (batch_size slots when N is a
\* multiple) and zeros in the rest.
C1_FixedBatchCount ==
    (Drained /\ batched /\ ~reader._dynamic_batch /\ NFrames >= 1) =>
        /\ Len(out) = Ceil(NFrames, reader._batch_size)
        /\ LET b == reader._batch_size
               k == IF NFrames % b = 0 THEN b ELSE NFrames % b
               last == out[Len(out)]
           IN  \A j \in 1..b : IF j <= k THEN last[j] # ZeroFrame
                                         ELSE last[j] = ZeroFrame

\* C2 (as claimed): read() never returns a batch for which no frame was
\* obtained, and never a batch of length 0 (stated here for the sources of
\* N >= 1 frames without a failed fetch, fixed or dynamic mode).
C2_NoEmptyBatch ==
    (NoTransient /\ NFrames >= 1 /\ ret.kind = "batch" /\ ~direct) =>
        (got >= 1 /\ Len(ret.val) >= 1)

\* C3: dynamic mode, N frames, read until the first None: the lengths of the
\* returned batches sum to N and every batch but the last has length
\* batch_size.
C3_DynamicLengths ==
    (Drained /\ batched /\ reader._dynamic_batch) =>
        /\ SumLen(out) = NFrames
        /\ \A j \in 1..(Len(out) - 1) : Len(out[j]) = reader._batch_size

C3_Witness ==
    /\ Drained /\ batched /\ reader._dynamic_batch
    /\ NFrames = 4 /\ reader._batch_size = 3
    /\ Len(out) = 2 /\ Len(out[2]) = 1

\* C4: after reading a source of N frames until None, frame_count = N,
\* unbatched, fixed or dynamic, for every batch_size.
C4_CountAfterDrain ==
    ReadOut => reader._frame_count = NFrames

C4_Witness ==
    /\ Drained /\ batched /\ NFrames >= 3
    /\ Len(out) < NFrames
    /\ reader._frame_count = NFrames

\* C5: a single-frame read (read() of a Reader without batch size, or
\* read_frame() of any Reader) that obtains a frame adds exactly 1 to
\* frame_count and returns that frame; one that fails leaves frame_count,
\* sets the open flag to false and returns None.
C5_ReadFrame ==
    [][ ((~batched /\ Read) \/ ReadFrame) =>
          LET g == VideoCapture_read(stream) IN
          IF g.frame # NoFrame
          THEN /\ reader'._frame_count = reader._frame_count + 1
               /\ ret' = Frame(g.frame)
          ELSE /\ reader'._frame_count = reader._frame_count
               /\ ~reader'._is_open
               /\ ret' = None ]_vars

C5_Witness ==
    /\ ~batched /\ stream.opened
    /\ ret = None /\ ~reader._is_open
    /\ reader._frame_count >= 1
    /\ stream.failed

\* C6 (as claimed): once a read() has failed, is_open() is false in every
\* later state.
C6_Latch ==
    (ended \/ stream.failed) => ~is_open(reader, stream)

\* C6 (amended): is_open() is false right after a failed fetch; for a batched
\* Reader used through read() alone it is false in every state after a failed
\* read(); is_open() goes from false to true only in a single-frame read that
\* obtains a frame: a read() of an unbatched Reader (called directly, or by a
\* for loop or write_all as their last read()) or a read_frame() called on
\* any Reader.
C6_LatchUntilFrame ==
    [][ /\ stream'.last = "fail" => ~is_open(reader', stream')
        /\ (batched /\ ~direct' /\ (ended' \/ stream'.failed)) =>
              ~is_open(reader', stream')
        /\ (~is_open(reader, stream) /\ is_open(reader', stream')) =>
              /\ (~batched /\ (Read \/ Iterate \/ WriteAll)) \/ ReadFrame
              /\ got' = 1 /\ ret'.kind = "frame" ]_vars

\* a batched Reader after a failed fetch and a further read(), with a frame
\* still to be had from the source
C6_Witness ==
    /\ batched /\ ~direct /\ stream.opened /\ stream.failed /\ ended
    /\ stream.pos < Len(stream.src)
    /\ stream.src[stream.pos + 1] # NoFrame
    /\ ~is_open(reader, stream)

\* C7: is_open() is true iff the source reports itself open and the last
\* fetch succeeded or no fetch was made yet.
C7_IsOpenIff ==
    is_open(reader, stream) <=> (stream.opened /\ stream.last # "fail")

C7_Witness ==
    /\ stream.failed /\ stream.last = "ok"
    /\ is_open(reader, stream)

\* C8: after release(), is_open() is false and every read() returns None and
\* leaves frame_count.
C8_AfterRelease ==
    /\ [](~stream.opened => ~is_open(reader, stream))
    /\ [][ (~stream.opened /\ Read) =>
             /\ ret' = None
             /\ reader'._frame_count = reader._frame_count
             /\ ~is_open(reader', stream') ]_vars

\* released with frames left, then read: the fetch failed on the released
\* handle
C8_Witness ==
    /\ ~stream.opened /\ NoTransient
    /\ stream.pos < Len(stream.src)
    /\ stream.last = "fail"
    /\ reader._frame_count >= 1
    /\ reader._frame_count = stream.pos
    /\ ret = None

\* C9: write(frame) on a Writer whose sink was released fails with the
\* not-open message, forwards nothing and leaves the Write Counter.
C9_WriteNotOpen ==
    [][ \A f \in WFrames :
          (~sinkv.opened /\ Write(f)) =>
             /\ werr' = NotOpenMsg
             /\ sinkv'.frames = sinkv.frames
             /\ writer'._frame_count = writer._frame_count ]_vars

C9_Witness ==
    /\ ~sinkv.opened /\ werr = NotOpenMsg
    /\ writer._frame_count >= 1
    /\ Len(sinkv.frames) = writer._frame_count

\* C10: write(frame) on an open Writer forwards the frame and adds exactly 1
\* to the Write Counter, whatever the frame's shape.
C10_WriteOpen ==
    [][ \A f \in WFrames :
          (sinkv.opened /\ Write(f)) =>
             /\ sinkv'.frames = Append(sinkv.frames, f)
             /\ writer'._frame_count = writer._frame_count + 1
             /\ werr' = NoError ]_vars

C10_Witness ==
    /\ writer._frame_count = Len(sinkv.frames)
    /\ \E j \in 1..Len(sinkv.frames) :
          /\ sinkv.frames[j].w # writer._width
          /\ werr = NoError

\* C11: write_all(reader) on an open Writer, with an unbatched Reader over a
\* source of M frames of which r were read: the remaining N = M - r frames go
\* to the sink once each in source order, the Write Counter grows by N (from 0
\* to N), the Reader's frame_count ends at r + N = M and no exception is
\* raised.
C11_WriteAllRemaining ==
    [][ (WriteAll /\ sinkv.opened /\ ~batched /\ NoTransient /\ stream.opened) =>
          LET r == reader._frame_count
              n == NFrames - r
          IN  /\ stream.pos = r
              /\ sinkv'.frames = sinkv.frames \o
                    [j \in 1..n |-> [h |-> reader._height, w |-> reader._width,
                                     val |-> <<stream.src[r + j]>>]]
              /\ writer'._frame_count = writer._frame_count + n
              /\ reader'._frame_count = r + n
              /\ stream'.pos = NFrames
              /\ werr' = NoError ]_vars

\* a source of 2 frames, one read before write_all: frame 2 alone is in the
\* sink, the Write Counter is 1 and the Reader's frame_count 2
C11_Witness ==
    /\ ~batched /\ NoTransient /\ stream.opened /\ sinkv.opened
    /\ NFrames = 2
    /\ out = << <<1>>, <<2>> >>
    /\ sinkv.frames = << [h |-> SrcHeight, w |-> SrcWidth, val |-> <<2>>] >>
    /\ writer._frame_count = 1
    /\ reader._frame_count = 2
    /\ ended

\* C12: release() on a Reader or a Writer is idempotent: releasing what was
\* released gives the same state (only the count of the calls of the
\* handle's release() grows) and no error; and no release() changes
\* frame_count, name, width, height, fps or info (any field of the Reader or
\* of the Writer), so the accessors return their last values after it.
C12_ReleaseIdempotent ==
    /\ [](LET g == release(reader, stream) IN
          /\ release(g.r, g.v) = [g EXCEPT !.v.releases = @ + 1]
          /\ g.r = reader)
    /\ [](LET g == Writer_release(writer, sinkv) IN
          /\ Writer_release(g.w, g.k) = [g EXCEPT !.k.releases = @ + 1]
          /\ g.w = writer)
    /\ [][ /\ Release =>
                /\ reader' = reader
                /\ ~stream.opened =>
                      /\ stream' = [stream EXCEPT !.releases = @ + 1]
                      /\ UNCHANGED <<reader, ret, got, out, ended, direct,
                                      writerVars>>
           /\ WriterRelease =>
                /\ writer' = writer /\ werr' = werr
                /\ ~sinkv.opened =>
                      /\ sinkv' = [sinkv EXCEPT !.releases = @ + 1]
                      /\ UNCHANGED <<writer, werr, ctor, readerVars>> ]_vars

\* a Reader released after two frames were read and a Writer released after
\* two frames were written: the counters and the names are still there
C12_Witness ==
    /\ ~stream.opened /\ ~sinkv.opened
    /\ reader._frame_count = 2 /\ writer._frame_count = 2
    /\ reader._name = Name_a_mp4 /\ reader._info.name = Name_a_mp4
    /\ writer._width = SrcWidth /\ writer._info.width = SrcWidth

\* C13: a for loop over an unbatched Reader on a source of N frames yields
\* the frames the source still has, each once and in source order (f1..fN
\* from a fresh Reader), and ends with no frame left in the source; read until
\* None by any calls, the values returned are exactly f1..fN.
C13_IterationYieldsSource ==
    /\ []((Drained /\ ~batched) =>
             /\ out = [j \in 1..NFrames |-> <<stream.src[j]>>]
             /\ stream.pos = NFrames)
    /\ [][ (Iterate /\ ~batched /\ NoTransient /\ stream.opened) =>
             /\ out' = out \o [j \in 1..(NFrames - stream.pos) |->
                                  <<stream.src[stream.pos + j]>>]
             /\ stream'.pos = NFrames
             /\ ended' ]_vars

\* a source of 4 frames iterated to its end, nothing written
C13_Witness ==
    /\ Drained /\ ~batched
    /\ NFrames = 4
    /\ out = << <<1>>, <<2>>, <<3>>, <<4>> >>
    /\ stream.pos = 4
    /\ sinkv.frames = <<>>

RECURSIVE Concat(_)
Concat(bs) == IF bs = <<>> THEN <<>> ELSE Head(bs) \o Concat(Tail(bs))

\* C14: a batched Reader, fixed or dynamic, on a source of N frames, read
\* until None: the batches returned, concatenated and cut to the first
\* frame_count slots, are f1..fN in source order; in fixed mode every batch
\* has batch_size slots; in dynamic mode every slot of every batch is a frame
\* of the source.
C14_BatchesCoverSource ==
    (Drained /\ batched) =>
        /\ reader._frame_count <= Len(Concat(out))
        /\ SubSeq(Concat(out), 1, reader._frame_count) =
              [j \in 1..NFrames |-> stream.src[j]]
        /\ ~reader._dynamic_batch =>
              \A b \in 1..Len(out) : Len(out[b]) = reader._batch_size
        /\ reader._dynamic_batch =>
              \A b \in 1..Len(out) : \A j \in 1..Len(out[b]) :
                  out[b][j] \in 1..NFrames

\* 5 frames in fixed batches of 3: the second batch ends with a zero slot
\* that the cut to frame_count = 5 drops
C14_Witness ==
    /\ Drained /\ batched /\ ~reader._dynamic_batch
    /\ NFrames = 5 /\ reader._batch_size = 3
    /\ out = << <<1, 2, 3>>, <<4, 5, ZeroFrame>> >>
    /\ reader._frame_count = 5

\* C15: a batch read() during which the source runs out after k frames,
\* 0 < k < batch_size: fixed mode returns batch_size slots, the k frames in
\* order then zeros; dynamic mode returns the k frames only; the next read()
\* returns None.  A source of 5 frames with batch_size 2 gives batches of
\* 2, 2, 2 slots in fixed mode (the third: frame 5 and a zero) and of
\* 2, 2, 1 in dynamic mode.
C15_MidBatchExhaustion ==
    /\ [][ (Read /\ batched /\ is_open(reader, stream) /\ NoTransient
                 /\ 0 < NFrames - stream.pos
                 /\ NFrames - stream.pos < reader._batch_size) =>
             LET k == NFrames - stream.pos
                 p == stream.pos
             IN  /\ got' = k
                 /\ ret'.kind = "batch"
                 /\ Len(ret'.val) = IF reader._dynamic_batch THEN k
                                    ELSE reader._batch_size
                 /\ \A j \in 1..Len(ret'.val) :
                       ret'.val[j] = IF j <= k THEN stream.src[p + j]
                                     ELSE ZeroFrame
                 /\ read(reader', stream').ret = None ]_vars
    /\ []((Drained /\ batched /\ NFrames = 5 /\ reader._batch_size = 2) =>
             out = IF reader._dynamic_batch
                   THEN << <<1, 2>>, <<3, 4>>, <<5>> >>
                   ELSE << <<1, 2>>, <<3, 4>>, <<5, ZeroFrame>> >>)

\* 5 frames in fixed batches of 2, read until None: the third batch is frame
\* 5 and a zero, and the read() after it returned None
C15_Witness ==
    /\ Drained /\ batched /\ ~reader._dynamic_batch
    /\ NFrames = 5 /\ reader._batch_size = 2
    /\ out = << <<1, 2>>, <<3, 4>>, <<5, ZeroFrame>> >>
    /\ ret = None
    /\ reader._frame_count = 5

\* C16: on a finite source, with any batch setting, reading ends: the for
\* loop reaches its StopIteration and the while loop its is_open() = false
\* after finitely many read() calls; the end is the value None, not an error;
\* and the sequence is one-shot: a read() made when the source has nothing
\* left obtains no frame (a read_frame() gets None), and for a Reader used
\* through read() and for loops, once None was returned for the exhausted
\* source (or, batched, for any reason) every later read() or for loop gets
\* None only.
C16_ReadingTerminates ==
    /\ <>ended
    /\ <>(~is_open(reader, stream))
    /\ [][ /\ stream.pos = Len(stream.src) => got' = 0
           /\ (ReadFrame /\ stream.pos = Len(stream.src)) => ret' = None
           /\ (ended /\ ~direct' /\ (batched \/ stream.pos = Len(stream.src))) =>
                 /\ ret' = None
                 /\ got' = 0
                 /\ out' = out
                 /\ ended' ]_vars

\* 5 frames in batches of 2 read to the end: None was returned and the Reader
\* is not open
C16_Witness ==
    /\ ended /\ ~is_open(reader, stream)
    /\ NoTransient /\ NFrames = 5
    /\ reader._batch_size = 2
    /\ stream.pos = 5 /\ reader._frame_count = 5
    /\ Len(out) = 3
    /\ ret = None

\* C17: Writer(...) with neither a Reader nor a name fails with the
\* AssertionError of _update_props, and no sink is created.
C17_NeedsReaderOrName ==
    [][ (Construct /\ ~ctor.args.reader /\ ctor.args.name = NoneStr) =>
          /\ ctor'.err = NeedNameMsg
          /\ ~ctor'.sink.created ]_vars

C17_Witness ==
    /\ ctor.done /\ ~ctor.args.reader /\ ctor.args.name = NoneStr
    /\ ctor.args.ext = <<"a", "v", "i">>
    /\ ctor.sinkOk
    /\ ctor.err = NeedNameMsg

\* C18: when the resolved extension is not .avi, .mkv or .mp4, Writer(...)
\* fails with NotImplementedError and no sink is created; when it is, the
\* sink is created with the codec .avi -> DIVX, .mkv -> X264, .mp4 -> mp4v.
C18_ExtensionCodec ==
    [][ (Construct /\ ctor'.err # NeedNameMsg) =>
          LET e == writer'._ext IN
          IF e \notin {Ext_avi, Ext_mkv, Ext_mp4}
          THEN /\ ctor'.err = UnsupportedMsg
               /\ ~ctor'.sink.created
          ELSE /\ ctor'.err # UnsupportedMsg
               /\ ctor'.sink.created
               /\ e = Ext_avi => ctor'.sink.fourcc = "DIVX"
               /\ e = Ext_mkv => ctor'.sink.fourcc = "X264"
               /\ e = Ext_mp4 => ctor'.sink.fourcc = "mp4v" ]_vars

\* Writer(name='test', ext='jst')
C18_Witness ==
    /\ ctor.done /\ ~ctor.args.reader
    /\ ctor.args.name = <<"t", "e", "s", "t">>
    /\ ctor.args.ext = <<"j", "s", "t">>
    /\ ctor.err = UnsupportedMsg /\ ~ctor.sink.created

\* ext is the extension of the path p and stem the rest: the extension is
\* empty, or starts at the only dot in it, holds no separator, and follows a
\* last path component that is not made of dots alone; when it is empty no
\* such split of p exists.
LastComponent(s) == SubSeq(s, RFind(s, Sep) + 1, Len(s))
IsExtension(stem, ext) ==
    /\ ext # <<>>
    /\ ext[1] = Dot
    /\ Dot \notin Chars(Tail(ext))
    /\ Sep \notin Chars(ext)
    /\ Chars(LastComponent(stem)) \ {Dot} # {}
IsStemExt(p, stem, ext) ==
    /\ p = stem \o ext
    /\ \/ IsExtension(stem, ext)
       \/ /\ ext = <<>>
          /\ ~\E k \in 0..Len(p) : IsExtension(SubSeq(p, 1, k), SubSeq(p, k + 1, Len(p)))

\* C19: a Writer made from a Reader with no explicit name is named with the
\* stem of the Reader's source, then "_out", then the source's extension.
C19_DefaultName ==
    [][ (Construct /\ ctor.args.reader /\ ctor.args.name = NoneStr
            /\ ctor'.err = NoError) =>
          \E k \in 0..Len(reader._name) :
             LET stem == SubSeq(reader._name, 1, k)
                 ext == SubSeq(reader._name, k + 1, Len(reader._name))
             IN  /\ IsStemExt(reader._name, stem, ext)
                 /\ writer'._name = stem \o Str_out \o ext ]_vars

\* static/countdown.mp4 gives static/countdown_out.mp4
C19_Witness ==
    /\ ctor.done /\ ctor.err = NoError
    /\ ctor.args.reader /\ ctor.args.name = NoneStr
    /\ reader._name = Name_countdown
    /\ writer._name =
         <<"s", "t", "a", "t", "i", "c", "/", "c", "o", "u", "n", "t", "d", "o", "w", "n",
           "_", "o", "u", "t", ".", "m", "p", "4">>

\* C20: for a Writer made from a Reader, each of name, width, height and fps
\* is the argument when one is given and the Reader's value (the default name
\* for name) otherwise, each field on its own.
C20_FieldOverrides ==
    [][ (Construct /\ ctor.args.reader /\ ctor'.err = NoError) =>
          LET a == ctor.args IN
          /\ writer'._name = IF a.name # NoneStr THEN a.name
                             ELSE splitext(reader._name)[1] \o Str_out
                                    \o splitext(reader._name)[2]
          /\ writer'._width = IF a.width # NoneNum THEN a.width ELSE reader._width
          /\ writer'._height = IF a.height # NoneNum THEN a.height ELSE reader._height
          /\ writer'._fps = IF a.fps # NoneNum THEN a.fps ELSE reader._fps ]_vars

\* Writer(reader, name='t.mp4', fps=...): name and fps given, width and
\* height inherited
C20_Witness ==
    /\ ctor.done /\ ctor.err = NoError /\ ctor.args.reader
    /\ ctor.args.name = <<"t", ".", "m", "p", "4">> /\ writer._name = ctor.args.name
    /\ ctor.args.fps # NoneNum /\ writer._fps = ctor.args.fps
    /\ ctor.args.width = NoneNum /\ writer._width = reader._width
    /\ ctor.args.height = NoneNum /\ writer._height = reader._height

\* C21: a batch read() on a Reader that reports not-open (after a failed
\* fetch, or after release) returns None at once: no fetch is made on the
\* source, and frame_count, the open flag and every other field are left.
C21_NotOpenBatchRead ==
    [][ (Read /\ batched /\ ~is_open(reader, stream)) =>
          /\ ret' = None
          /\ got' = 0
          /\ stream'.fetched = 0
          /\ stream' = Entered(stream)
          /\ reader' = reader ]_vars

\* a batched Reader released before any read(), then read: None came back,
\* no fetch was ever made, and the Reader's own flag is still set
C21_Witness ==
    /\ batched /\ ~stream.opened /\ ended
    /\ ret = None
    /\ stream.last = "none" /\ stream.pos = 0
    /\ Len(stream.src) >= 1
    /\ reader._is_open /\ reader._frame_count = 0

\* the fetches numbered a+1..b of the source that give a frame
Obtained(a, b) ==
    Cardinality({ i \in (a + 1)..b : i <= Len(stream.src) /\ stream.src[i] # NoFrame })

\* C22: frame_count is 0 until a fetch was made, never decreases, changes
\* only in a read() (made directly, by a for loop or by write_all) or a
\* read_frame() that obtains a frame, and grows by the number of frames
\* obtained, not by the number of fetches.
C22_FrameCountMonotone ==
    /\ [](stream.last = "none" => reader._frame_count = 0)
    /\ [](reader._frame_count = Obtained(0, stream.pos))
    /\ [][ /\ reader'._frame_count >= reader._frame_count
           /\ reader'._frame_count =
                 reader._frame_count + Obtained(stream.pos, stream'.pos)
           /\ (Release \/ WriteAny \/ WriterRelease) =>
                 reader'._frame_count = reader._frame_count
           /\ reader'._frame_count # reader._frame_count =>
                 /\ Read \/ ReadFrame \/ Iterate \/ WriteAll
                 /\ Obtained(stream.pos, stream'.pos) >= 1 ]_vars

\* three fetches were made, the second failed: frame_count is 2
C22_Witness ==
    /\ stream.pos = 3 /\ Len(stream.src) >= 3
    /\ stream.src[2] = NoFrame
    /\ stream.failed
    /\ reader._frame_count = 2

\* C23: fixed mode: a batch read() on a Reader that reports open, whose first
\* fetch fails, returns a batch of batch_size zero slots, not None; the
\* read() after it returns None.
C23_ZeroBatchOnFirstFailure ==
    [][ (Read /\ batched /\ ~reader._dynamic_batch /\ is_open(reader, stream)
              /\ ~VideoCapture_read(stream).flag) =>
          /\ ret' = Batch([j \in 1..reader._batch_size |-> ZeroFrame])
          /\ got' = 0
          /\ read(reader', stream').ret = None ]_vars

\* 4 frames in fixed batches of 2: after <<1, 2>> and <<3, 4>> the Reader
\* still reported open, and the third read() returned two zero slots
C23_Witness ==
    /\ batched /\ ~reader._dynamic_batch /\ reader._batch_size = 2
    /\ NoTransient /\ stream.opened /\ ~ended
    /\ NFrames = 4 /\ stream.pos = 4
    /\ out = << <<1, 2>>, <<3, 4>>, <<ZeroFrame, ZeroFrame>> >>
    /\ ret = Batch(<<ZeroFrame, ZeroFrame>>)
    /\ got = 0

\* C25: one batch read() on an open Reader makes at most batch_size fetches,
\* puts the frames in the slots in fetch order from slot 0, and makes no
\* fetch after the first failed one: a fetch that fails at iteration i is the
\* call's fetch i + 1 and its last, and leaves exactly i slots filled,
\* 0 <= i < batch_size.
C25_BatchFetches ==
    [][ (Read /\ batched /\ is_open(reader, stream)) =>
          LET bs == reader._batch_size
              i == got'
          IN  /\ stream'.fetched \in 1..bs
              /\ ret'.kind = "batch"
              /\ \A j \in 1..i : ret'.val[j] = stream.src[stream.pos + j]
              /\ \A j \in (i + 1)..Len(ret'.val) : ret'.val[j] = ZeroFrame
              /\ Len(ret'.val) = IF reader._dynamic_batch THEN i ELSE bs
              /\ stream'.last = "fail" =>
                    (stream'.fetched = i + 1 /\ i \in 0..(bs - 1))
              /\ stream'.last = "ok" =>
                    (stream'.fetched = bs /\ i = bs) ]_vars

\* batches of 3 on a source whose second fetch fails with a frame after it:
\* the read() made 2 fetches, filled 1 slot and left the third outcome
C25_Witness ==
    /\ batched /\ ~reader._dynamic_batch /\ reader._batch_size = 3
    /\ stream.opened
    /\ Len(stream.src) = 3
    /\ stream.src[2] = NoFrame /\ stream.src[3] # NoFrame
    /\ stream.pos = 2 /\ stream.fetched = 2
    /\ ret = Batch(<<1, ZeroFrame, ZeroFrame>>)
    /\ got = 1

\* the real (non-padding) frames among the values read() returned, in order
RealFrames == SelectSeq(Concat(out), LAMBDA x : x # ZeroFrame)

\* C26: on a source of N frames, in every state reached by read() and
\* release() calls (for loops and write_all included), frame_count is the
\* number of real frames returned so far and the number of frames taken from
\* the source, between 0 and N; the real frames returned are f1..f(frame_count)
\* in order: none dropped, none twice.
C26_CountIsReturnedIsConsumed ==
    NoTransient =>
        /\ reader._frame_count = Len(RealFrames)
        /\ reader._frame_count = stream.pos
        /\ reader._frame_count \in 0..NFrames
        /\ RealFrames = [j \in 1..reader._frame_count |-> stream.src[j]]

\* 3 frames in fixed batches of 2, released after the second read(): 4 slots
\* were returned, 3 of them real, frame_count is 3
C26_Witness ==
    /\ NoTransient /\ NFrames = 3
    /\ batched /\ ~reader._dynamic_batch /\ reader._batch_size = 2
    /\ ~stream.opened
    /\ Len(Concat(out)) = 4
    /\ reader._frame_count = 3 /\ stream.pos = 3

\* C27: write_all(reader) on a released Writer with an unbatched Reader that
\* has a frame to give: write raises the not-open error on the first element;
\* the Write Counter and the sink are as before, and the Reader has given
\* exactly one frame (frame_count one higher), which is not written.
C27_WriteAllNotOpen ==
    [][ (WriteAll /\ ~sinkv.opened /\ ~batched
                  /\ VideoCapture_read(stream).flag) =>
          /\ werr' = NotOpenMsg
          /\ writer' = writer
          /\ sinkv' = sinkv
          /\ reader'._frame_count = reader._frame_count + 1
          /\ stream'.pos = stream.pos + 1
          /\ stream'.fetched = 1
          /\ ret' = Frame(stream.src[stream.pos + 1]) ]_vars

\* a released Writer that wrote nothing, 2 frames in the source: write_all
\* took frame 1 from the Reader and stopped there
C27_Witness ==
    /\ ~sinkv.opened /\ ~batched /\ stream.opened
    /\ NoTransient /\ NFrames = 2
    /\ werr = NotOpenMsg
    /\ writer._frame_count = 0 /\ sinkv.frames = <<>>
    /\ reader._frame_count = 1 /\ stream.pos = 1
    /\ ret = Frame(1)

\* the batch number j that a batched Reader at position p returns on a
\* source of N frames without failed fetches
BatchAt(p, j) ==
    LET bs == reader._batch_size
        first == p + (j - 1) * bs
        real == IF NFrames - first >= bs THEN bs
                ELSE IF NFrames - first <= 0 THEN 0 ELSE NFrames - first
    IN  [s \in 1..(IF reader._dynamic_batch THEN real ELSE bs) |->
            IF s <= real THEN stream.src[first + s] ELSE ZeroFrame]

\* C28: write_all(reader) on an open Writer with a batched Reader calls write
\* once per batch the Reader returns, the all-zero or empty batch at the end
\* of the source included: on a source of N frames the Write Counter grows by
\* the number of batches, (N - pos) div batch_size + 1 from an open Reader
\* and 0 from a not-open one, not by the number of frames; the Reader's
\* frame_count ends at N.
C28_WriteAllBatches ==
    [][ (WriteAll /\ sinkv.opened /\ batched /\ NoTransient /\ stream.opened) =>
          LET nb == IF is_open(reader, stream)
                    THEN (NFrames - stream.pos) \div reader._batch_size + 1
                    ELSE 0
          IN  /\ writer'._frame_count = writer._frame_count + nb
              /\ sinkv'.frames = sinkv.frames \o
                    [j \in 1..nb |-> [h |-> reader._height, w |-> reader._width,
                                      val |-> BatchAt(stream.pos, j)]]
              /\ werr' = NoError
              /\ is_open(reader, stream) => reader'._frame_count = NFrames
              /\ ~is_open(reader, stream) =>
                    reader'._frame_count = reader._frame_count ]_vars

\* 2 frames in fixed batches of 1 written by write_all: 3 writes, the third
\* of a zero slot; the Reader counted 2 frames
C28_Witness ==
    /\ batched /\ ~reader._dynamic_batch /\ reader._batch_size = 1
    /\ NoTransient /\ NFrames = 2 /\ stream.opened /\ sinkv.opened
    /\ writer._frame_count = 3
    /\ Len(sinkv.frames) = 3
    /\ sinkv.frames[3].val = <<ZeroFrame>>
    /\ reader._frame_count = 2

\* C24 (as claimed): by the time a Reader or a Writer has been finalized, the
\* release() of its stream handle has been called exactly once, whatever
\* release() calls and with-exits came before.
C24_ReleasedExactlyOnce ==
    /\ ~stream.held => stream.releases = 1
    /\ ~sinkv.held => sinkv.releases = 1

\* C24 (amended): every release(), with-exit and finalization of an object
\* that holds its handle calls the handle's release() once more, so the calls
\* are counted by those operations, not limited to one; the handle is open
\* exactly until the first of them; finalization makes at least one call and
\* drops the handle, after which release() calls nothing.
C24_ReleasePerCall ==
    /\ [](stream.held =>
            /\ release(reader, stream).v.releases = stream.releases + 1
            /\ Reader__exit__(reader, stream).v.releases = stream.releases + 1
            /\ Reader__del__(reader, stream).v.releases = stream.releases + 1
            /\ ~Reader__del__(reader, stream).v.held)
    /\ [](sinkv.held =>
            /\ Writer_release(writer, sinkv).k.releases = sinkv.releases + 1
            /\ Writer__exit__(writer, sinkv).k.releases = sinkv.releases + 1
            /\ Writer__del__(writer, sinkv).k.releases = sinkv.releases + 1
            /\ ~Writer__del__(writer, sinkv).k.held)
    /\ [](~stream.held =>
            (stream.releases >= 1 /\ release(reader, stream).v = stream))
    /\ [](~sinkv.held =>
            (sinkv.releases >= 1 /\ Writer_release(writer, sinkv).k = sinkv))
    /\ [](stream.opened <=> stream.releases = 0)
    /\ [](sinkv.opened <=> sinkv.releases = 0)
    /\ [][ /\ stream'.releases \in {stream.releases, stream.releases + 1}
           /\ sinkv'.releases \in {sinkv.releases, sinkv.releases + 1}
           /\ (ReaderFinalize \/ (stream.held /\ (Release \/ ReaderExit))) =>
                 stream'.releases = stream.releases + 1
           /\ (WriterFinalize \/ (sinkv.held /\ (WriterRelease \/ WriterExit))) =>
                 sinkv'.releases = sinkv.releases + 1 ]_vars

\* a Reader and a Writer, each released (or left by a with block) and then
\* finalized: the release() of each handle was called twice
C24_Witness ==
    /\ ~stream.held /\ stream.releases = 2 /\ ~stream.opened
    /\ ~sinkv.held /\ sinkv.releases = 2 /\ ~sinkv.opened

====
